---- MODULE Spec2Model ----
(***************************************************************************)
(* Model of the cell-entity annotation driver of the nest repository:      *)
(* CEAAnnotator.annotate_table / annotate_dataset                          *)
(* (src/annotators/__init__.py) with its on-disk annotation cache.         *)
(*                                                                         *)
(* A table is a record [tab_id, dataset_id, cells, ann]: cells is the      *)
(* sequence of the cells' search keys (cell i is row i of the target       *)
(* column) and ann the annotation layer (cell i -> Entity, or None).       *)
(* A file of the cache is a record [exists, bytes]; bytes is the pickled   *)
(* table once the dump is complete and the empty sequence right after      *)
(* open(filename, 'wb') has created or truncated the file.                 *)
(*                                                                         *)
(* The rank-fusion function weighting_by_ranking (src/utils/functions.py)  *)
(* is modelled step by step on IEEE 754 binary64 floats.                   *)
(***************************************************************************)
EXTENDS Integers, Sequences, FiniteSets, TLC

\* ---------------------------------------------------------------- bounds
\* Number of OS processes that may run annotate_table at the same time.
NProcs == 3
\* Number of direct annotate_table calls made in one behaviour.
MaxCalls == 2
\* Number of tables of the dataset.
NTables == 3
\* Number of annotate_dataset runs in one behaviour.
MaxRuns == 2
\* Length of the longest candidate list passed to weighting_by_ranking.
MaxCands == 3
\* Length of the longest URI of an Entity that is compared.
MaxUriLen == 3

\* ------------------------------------------------------------- universes
Procs == 1..NProcs
GeneratorId == "gen"

None == <<>>
NoTable == [tab_id |-> 0, dataset_id |-> "", cells |-> <<>>, ann |-> <<>>]
NoFile == [exists |-> FALSE, bytes |-> <<>>]

Range(s) == {s[i] : i \in DOMAIN s}
Injective(s) == \A i, j \in DOMAIN s : s[i] = s[j] => i = j
Min(a, b) == IF a <= b THEN a ELSE b

\* ------------------------------------------------------------ data model
\* data_model.kgs.Entity: a NamedTuple with the single field uri.
Entity(uri) == <<uri>>

\* data_model.dataset.Table as the dataset loader builds it: no annotation.
NewTable(tab_id, dataset_id, cells) ==
    [tab_id |-> tab_id, dataset_id |-> dataset_id, cells |-> cells,
     ann |-> [i \in DOMAIN cells |-> None]]

\* Table.get_search_keys_cells_dict: search key -> the cells sharing it.
get_search_keys_cells_dict(t) ==
    [k \in {t.cells[i] : i \in DOMAIN t.cells} |->
        {i \in DOMAIN t.cells : t.cells[i] = k}]

\* Table.annotate_cell: set the annotation of one cell.
annotate_cell(t, cell, entity) == [t EXCEPT !.ann[cell] = entity]

RECURSIVE annotate_cells(_, _, _)
annotate_cells(t, cells, entity) ==
    IF cells = {} THEN t
    ELSE LET c == CHOOSE x \in cells : \A y \in cells : x <= y
         IN annotate_cells(annotate_cell(t, c, entity), cells \ {c}, entity)

\* The tables a caller passes to annotate_table directly: two cell grids under
\* the same ids (cells 1 and 2 of the first share a search key), and a table
\* with the same table id in another dataset.
InputTables ==
    {NewTable(1, "Round1", <<"a", "a", "b">>),
     NewTable(1, "Round1", <<"b">>),
     NewTable(1, "2T", <<"b">>)}

\* DatasetEnum.get_tables: one Table per tab_id of the ground truth, in the
\* order of the ids, each built anew with the dataset's value as dataset_id.
get_tables ==
    [i \in 1..NTables |->
        NewTable(i, "Round1", IF i % 2 = 1 THEN <<"a", "a">> ELSE <<"b">>)]

\* ------------------------------------------------------------- the cache
\* line 32-38: annotations/<dataset_id>/<generator id>/<tab_id>.pkl
filename(t) == <<t.dataset_id, GeneratorId, t.tab_id>>

Keys == {filename(t) : t \in InputTables \cup Range(get_tables)}

\* Variant: the existence check never finds the file.
PathExistsNever(c, k) == FALSE

\* os.path.exists(filename)
PathExists(c, k) == c[k].exists

\* pickle.dump / pickle.load of a Table.
Pickle(t) == <<t.tab_id, t.dataset_id, t.cells, t.ann>>
Loadable(bytes) == Len(bytes) = 4
Unpickle(bytes) ==
    [tab_id |-> bytes[1], dataset_id |-> bytes[2], cells |-> bytes[3],
     ann |-> bytes[4]]

\* ---------------------------------------------------------- the generator
\* Ordered candidate lists (best first) the generator may return for a key:
\* no candidate, one, or two.
CandLists == {<<>>, <<"E1">>, <<"E2", "E1">>}

\* Generator.get_candidates(table): one (search key, candidates) pair per
\* distinct search key of the table, in any order.
GeneratorOutputs(t) ==
    LET K == DOMAIN get_search_keys_cells_dict(t)
        n == Cardinality(K)
    IN UNION {{[i \in 1..n |-> <<order[i], f[order[i]]>>] : f \in [K -> CandLists]} :
              order \in {o \in [1..n -> K] : Injective(o)}}

\* Variant: one invocation per search key, each with a mini-table of the
\* cells of that key (the chunked parallelization of lines 45-56, commented
\* out in the code).
RECURSIVE MiniTables(_, _)
MiniTables(t, K) ==
    IF K = {} THEN <<>>
    ELSE LET k == CHOOSE x \in K : TRUE
             n == Cardinality(get_search_keys_cells_dict(t)[k])
         IN <<NewTable(t.tab_id, t.dataset_id, [i \in 1..n |-> k])>>
            \o MiniTables(t, K \ {k})

GeneratorInvocationsPerKey(t) == MiniTables(t, DOMAIN get_search_keys_cells_dict(t))

\* line 58: the arguments of the generator's invocations for one table:
\* a single call, with the whole table.
GeneratorInvocations(t) == <<t>>

\* Variant: the last candidate is taken.
LastCandidate(candidates) == candidates[Len(candidates)]

\* line 62: candidates[0], the first candidate, is the best one.
BestCandidate(candidates) == candidates[1]

\* lines 59-62: the loop over the results, applied to the table.
RECURSIVE ApplyResults(_, _)
ApplyResults(t, res) ==
    IF res = <<>> THEN t
    ELSE LET search_key == Head(res)[1]
             candidates == Head(res)[2]
             t1 == IF candidates # <<>>
                   THEN annotate_cells(t, get_search_keys_cells_dict(t)[search_key],
                                       Entity(BestCandidate(candidates)))
                   ELSE t
         IN ApplyResults(t1, Tail(res))

\* ----------------------------------------------------------------- state
VARIABLES
    cache,      \* Keys -> file: the annotations directory
    pc,         \* Procs -> position of the process inside annotate_table
    tbl,        \* Procs -> the table object passed to the call in progress
    results,    \* Procs -> the set of pairs the call received from the generator
    genArgs,    \* Procs -> arguments of the call's generator invocations
    ret,        \* Procs -> the table the call returned
    err,        \* Procs -> the exception the call raised ("" if none)
    entryAtStart,   \* Procs -> the file of the key existed when the call started
    invoked,    \* Keys -> get_candidates has been invoked for the key
    computed,   \* Keys -> an invocation for the key ended without error, its results consumed
    calls,      \* number of direct annotate_table calls made
    max_workers,            \* CEAAnnotator._max_workers
    dsPc,                   \* position of the caller inside annotate_dataset
    fut,                    \* table index -> state of its future in the pool
    futResult,              \* table index -> result of its future
    task,                   \* Procs -> index of the table the worker handles
    new_annotated_tables,   \* the list annotate_dataset builds and returns
    completed,              \* table indices in the order the workers finished
    runs                    \* number of annotate_dataset runs that began to annotate

\* The state of a call of weighting_by_ranking.
VARIABLES
    candidates,             \* parameter: the list of CandidateEmbeddings
    alpha,                  \* parameter: weight of the original rank
    default_score,          \* parameter: None, or the default score
    wpc,                    \* position of the call inside the function
    scored_candidates,      \* local list of the scored candidates
    non_scored_candidates,  \* local list of the candidates left without score
    ranking                 \* the list the function returned

\* The state of a comparison of an Entity with another value.
VARIABLES
    parseLoaded,    \* the submodule urllib.parse has been imported in the process
    left,           \* the Entity on the left of ==
    right,          \* the value on the right of ==
    epc,            \* position: "idle", "start", "compared" or "hashed"
    eqLR,           \* outcome of left == right
    eqRL,           \* outcome of right == left
    hashL,          \* hash(left)
    hashR           \* hash(right)

dvars == <<max_workers, dsPc, fut, futResult, task, new_annotated_tables, completed, runs>>
locals == <<pc, tbl, results, genArgs, ret, err, entryAtStart>>
rvars == <<candidates, alpha, default_score, wpc,
           scored_candidates, non_scored_candidates, ranking>>
avars == <<cache, locals, invoked, computed, calls, dvars>>
evars == <<parseLoaded, left, right, epc, eqLR, eqRL, hashL, hashR>>
vars == <<avars, rvars, evars>>

InitState ==
    /\ cache = [k \in Keys |-> NoFile]
    /\ pc = [p \in Procs |-> "idle"]
    /\ tbl = [p \in Procs |-> NoTable]
    /\ results = [p \in Procs |-> {}]
    /\ genArgs = [p \in Procs |-> <<>>]
    /\ ret = [p \in Procs |-> NoTable]
    /\ err = [p \in Procs |-> ""]
    /\ entryAtStart = [p \in Procs |-> FALSE]
    /\ invoked = [k \in Keys |-> FALSE]
    /\ computed = [k \in Keys |-> FALSE]
    /\ calls = 0
    /\ dsPc = "idle"
    /\ fut = [i \in 1..NTables |-> "none"]
    /\ futResult = [i \in 1..NTables |-> NoTable]
    /\ task = [p \in Procs |-> 0]
    /\ new_annotated_tables = <<>>
    /\ completed = <<>>
    /\ runs = 0

\* weighting_by_ranking is not called: its parameters have their defaults.
NoRanking ==
    /\ candidates = <<>>
    /\ alpha = <<1, <<1>>, 0 - 1>>
    /\ default_score = None
    /\ wpc = "idle"
    /\ scored_candidates = <<>>
    /\ non_scored_candidates = <<>>
    /\ ranking = <<>>

\* A Python value: its class and its content (the fields of a tuple, the
\* characters of a str). Characters are code points.
Value(cls, fields) == [cls |-> cls, fields |-> fields]

\* No Entity is compared.
NoComparison ==
    /\ parseLoaded = TRUE
    /\ left = Value("Entity", Entity(<<>>))
    /\ right = Value("Entity", Entity(<<>>))
    /\ epc = "idle"
    /\ eqLR = ""
    /\ eqRL = ""
    /\ hashL = <<>>
    /\ hashR = <<>>

\* line 15-24: the annotator is built with max_workers > 0.
Init ==
    /\ InitState
    /\ max_workers = 1
    /\ NoRanking
    /\ NoComparison

\* --------------------------------------------------------- annotate_table
\* Process p is inside annotate_table (it has neither returned nor raised).
InCall(p) == pc[p] \notin {"idle", "returned", "raised"}

\* lines 30-41: the call starts, builds the file name and checks the cache.
\* The locals of an earlier call of the process are gone.
Enter(p, t) ==
    /\ ~InCall(p)
    /\ tbl' = [tbl EXCEPT ![p] = t]
    /\ results' = [results EXCEPT ![p] = {}]
    /\ genArgs' = [genArgs EXCEPT ![p] = <<>>]
    /\ ret' = [ret EXCEPT ![p] = NoTable]
    /\ err' = [err EXCEPT ![p] = ""]
    /\ entryAtStart' = [entryAtStart EXCEPT ![p] = cache[filename(t)].exists]
    /\ pc' = [pc EXCEPT ![p] = IF PathExists(cache, filename(t)) THEN "load" ELSE "annotate"]
    /\ UNCHANGED <<cache, invoked, computed>>

\* A direct call of annotate_table by process p. The processes are
\* interchangeable: of those that have made no call yet, the one with the
\* lowest number calls first.
Call(p, t) ==
    /\ calls < MaxCalls
    /\ \A q \in 1..(p - 1) : pc[q] # "idle"
    /\ calls' = calls + 1
    /\ Enter(p, t)
    /\ UNCHANGED <<dvars, rvars, evars>>

\* lines 43-62 on a miss: the generator is invoked and every result consumed.
Annotate(p) ==
    /\ pc[p] = "annotate"
    /\ \E res \in GeneratorOutputs(tbl[p]) :
        /\ results' = [results EXCEPT ![p] = Range(res)]
        /\ tbl' = [tbl EXCEPT ![p] = ApplyResults(tbl[p], res)]
    /\ genArgs' = [genArgs EXCEPT ![p] = GeneratorInvocations(tbl[p])]
    /\ invoked' = [invoked EXCEPT ![filename(tbl[p])] = TRUE]
    /\ computed' = [computed EXCEPT ![filename(tbl[p])] = TRUE]
    /\ pc' = [pc EXCEPT ![p] = "open"]
    /\ UNCHANGED <<cache, ret, err, entryAtStart, calls, rvars, evars, dvars>>

\* Variant: the table annotated so far is written to the cache before the
\* exception leaves annotate_table.
AnnotateRaisePersist(p) ==
    /\ pc[p] = "annotate"
    /\ \E res \in GeneratorOutputs(tbl[p]) : \E n \in 0..Len(res) :
        /\ results' = [results EXCEPT ![p] = Range(SubSeq(res, 1, n))]
        /\ tbl' = [tbl EXCEPT ![p] = ApplyResults(tbl[p], SubSeq(res, 1, n))]
        /\ cache' = [cache EXCEPT ![filename(tbl[p])] =
                        [exists |-> TRUE,
                         bytes |-> Pickle(ApplyResults(tbl[p], SubSeq(res, 1, n)))]]
    /\ genArgs' = [genArgs EXCEPT ![p] = GeneratorInvocations(tbl[p])]
    /\ invoked' = [invoked EXCEPT ![filename(tbl[p])] = TRUE]
    /\ pc' = [pc EXCEPT ![p] = "raised"]
    /\ err' = [err EXCEPT ![p] = "GeneratorFailure"]
    /\ UNCHANGED <<ret, entryAtStart, computed, calls, rvars, evars, dvars>>

\* lines 58-62 when the generator raises: in get_candidates itself (nothing
\* received) or while its results are consumed, n pairs already applied. The
\* loop of line 59 asks the iterable once more after the last pair, so the
\* generator can raise there too, every pair applied (n = Len(res)).
\* Nothing catches the exception: it leaves annotate_table before line 64.
AnnotateRaise(p) ==
    /\ pc[p] = "annotate"
    /\ \E res \in GeneratorOutputs(tbl[p]) : \E n \in 0..Len(res) :
        /\ results' = [results EXCEPT ![p] = Range(SubSeq(res, 1, n))]
        /\ tbl' = [tbl EXCEPT ![p] = ApplyResults(tbl[p], SubSeq(res, 1, n))]
    /\ genArgs' = [genArgs EXCEPT ![p] = GeneratorInvocations(tbl[p])]
    /\ invoked' = [invoked EXCEPT ![filename(tbl[p])] = TRUE]
    /\ pc' = [pc EXCEPT ![p] = "raised"]
    /\ err' = [err EXCEPT ![p] = "GeneratorFailure"]
    /\ UNCHANGED <<cache, ret, entryAtStart, computed, calls, rvars, evars, dvars>>

\* line 64, open(filename, 'wb'): the file is created, or truncated, empty.
Open(p) ==
    /\ pc[p] = "open"
    /\ cache' = [cache EXCEPT ![filename(tbl[p])] = [exists |-> TRUE, bytes |-> <<>>]]
    /\ pc' = [pc EXCEPT ![p] = "dump"]
    /\ UNCHANGED <<tbl, results, genArgs, ret, err, entryAtStart, invoked, computed, calls, rvars, evars, dvars>>

\* line 64, pickle.dump(table, file): the serialized table reaches the file.
Dump(p) ==
    /\ pc[p] = "dump"
    /\ cache' = [cache EXCEPT ![filename(tbl[p])] = [exists |-> TRUE, bytes |-> Pickle(tbl[p])]]
    /\ pc' = [pc EXCEPT ![p] = "load"]
    /\ UNCHANGED <<tbl, results, genArgs, ret, err, entryAtStart, invoked, computed, calls, rvars, evars, dvars>>

\* Variant: the table in memory is returned.
ReturnInMemory(c, t) == t

\* line 66: the value annotate_table returns is read back from the file.
LoadResult(c, t) == Unpickle(c[filename(t)].bytes)

\* Variant: the annotations of the stored table are copied onto the table
\* that was passed in.
LoadAndAnnotate(p) ==
    /\ pc[p] = "load"
    /\ Loadable(cache[filename(tbl[p])].bytes)
    /\ ret' = [ret EXCEPT ![p] = LoadResult(cache, tbl[p])]
    /\ tbl' = [tbl EXCEPT ![p] = LoadResult(cache, tbl[p])]
    /\ pc' = [pc EXCEPT ![p] = "returned"]
    /\ UNCHANGED <<cache, results, genArgs, err, entryAtStart, invoked, computed, calls, rvars, evars, dvars>>

\* line 66, pickle.load(open(filename, 'rb')) of a complete file.
Load(p) ==
    /\ pc[p] = "load"
    /\ Loadable(cache[filename(tbl[p])].bytes)
    /\ ret' = [ret EXCEPT ![p] = LoadResult(cache, tbl[p])]
    /\ pc' = [pc EXCEPT ![p] = "returned"]
    /\ UNCHANGED <<cache, tbl, results, genArgs, err, entryAtStart, invoked, computed, calls, rvars, evars, dvars>>

\* line 66 on a file another process has opened for writing and not yet
\* written: pickle.load raises EOFError.
LoadRaise(p) ==
    /\ pc[p] = "load"
    /\ ~Loadable(cache[filename(tbl[p])].bytes)
    /\ pc' = [pc EXCEPT ![p] = "raised"]
    /\ err' = [err EXCEPT ![p] = "EOFError"]
    /\ UNCHANGED <<cache, tbl, results, genArgs, ret, entryAtStart, invoked, computed, calls, rvars, evars, dvars>>

\* The steps of a call that meets no file another call is writing.
Step(p) ==
    \/ Annotate(p)
    \/ AnnotateRaise(p)
    \/ Open(p)
    \/ Dump(p)
    \/ Load(p)

\* Processes call annotate_table on any tables, concurrently.
Next ==
    \/ \E p \in Procs, t \in InputTables : Call(p, t)
    \/ \E p \in Procs : Step(p)
    \/ \E p \in Procs : LoadRaise(p)

Spec == Init /\ [][Next]_vars

\* ------------------------------------------------------- annotate_dataset
\* Variant: the first table of the lazy sequence is consumed before the loop.
TablesSkipFirst == Tail(get_tables)

\* line 76: tables = dataset.get_tables(), the tables both branches iterate.
Tables == get_tables

\* Variant: the annotations of earlier runs are removed when a run starts.
StartDatasetFresh ==
    /\ dsPc \in {"idle", "returned", "raised"}
    /\ runs < MaxRuns
    /\ runs' = runs + 1
    /\ dsPc' = IF max_workers = 1 THEN "serial" ELSE "submitting"
    /\ fut' = [i \in 1..NTables |-> "none"]
    /\ futResult' = [i \in 1..NTables |-> NoTable]
    /\ new_annotated_tables' = <<>>
    /\ completed' = <<>>
    /\ pc' = [p \in Procs |-> "idle"]
    /\ tbl' = [p \in Procs |-> NoTable]
    /\ results' = [p \in Procs |-> {}]
    /\ genArgs' = [p \in Procs |-> <<>>]
    /\ ret' = [p \in Procs |-> NoTable]
    /\ err' = [p \in Procs |-> ""]
    /\ entryAtStart' = [p \in Procs |-> FALSE]
    /\ cache' = [k \in Keys |-> NoFile]
    /\ UNCHANGED <<invoked, computed, calls, rvars, evars, max_workers, task>>

\* lines 74-77 with the dataset the signature names, a DatasetEnum
\* (src/datasets/__init__.py): it has get_tables and no total_tables, so
\* line 77 raises AttributeError. get_tables is lazy and has built no table,
\* no table is annotated and nothing is returned.
StartDatasetRaise ==
    /\ dsPc \in {"idle", "returned", "raised"}
    /\ runs < MaxRuns
    /\ dsPc' = "raised"
    /\ fut' = [i \in 1..NTables |-> "none"]
    /\ futResult' = [i \in 1..NTables |-> NoTable]
    /\ new_annotated_tables' = <<>>
    /\ completed' = <<>>
    /\ pc' = [p \in Procs |-> "idle"]
    /\ tbl' = [p \in Procs |-> NoTable]
    /\ results' = [p \in Procs |-> {}]
    /\ genArgs' = [p \in Procs |-> <<>>]
    /\ ret' = [p \in Procs |-> NoTable]
    /\ err' = [p \in Procs |-> ""]
    /\ entryAtStart' = [p \in Procs |-> FALSE]
    /\ UNCHANGED <<cache, invoked, computed, calls, rvars, evars, max_workers, task, runs>>

\* lines 74-78 and 82-83 with a dataset that has get_tables and
\* total_tables: annotate_dataset starts. With max_workers = 1 the caller
\* loops over the tables itself; otherwise process_map creates a pool of
\* max_workers processes and begins to submit one task per table.
StartDataset ==
    /\ dsPc \in {"idle", "returned", "raised"}
    /\ runs < MaxRuns
    /\ runs' = runs + 1
    /\ dsPc' = IF max_workers = 1 THEN "serial" ELSE "submitting"
    /\ fut' = [i \in 1..NTables |-> "none"]
    /\ futResult' = [i \in 1..NTables |-> NoTable]
    /\ new_annotated_tables' = <<>>
    /\ completed' = <<>>
    /\ pc' = [p \in Procs |-> "idle"]
    /\ tbl' = [p \in Procs |-> NoTable]
    /\ results' = [p \in Procs |-> {}]
    /\ genArgs' = [p \in Procs |-> <<>>]
    /\ ret' = [p \in Procs |-> NoTable]
    /\ err' = [p \in Procs |-> ""]
    /\ entryAtStart' = [p \in Procs |-> FALSE]
    /\ UNCHANGED <<cache, invoked, computed, calls, rvars, evars, max_workers, task>>

\* The call of process p is over and its outcome taken: its locals are gone.
Forget(p) ==
    /\ pc' = [pc EXCEPT ![p] = "idle"]
    /\ tbl' = [tbl EXCEPT ![p] = NoTable]
    /\ results' = [results EXCEPT ![p] = {}]
    /\ genArgs' = [genArgs EXCEPT ![p] = <<>>]
    /\ ret' = [ret EXCEPT ![p] = NoTable]
    /\ err' = [err EXCEPT ![p] = ""]
    /\ entryAtStart' = [entryAtStart EXCEPT ![p] = FALSE]

\* line 80-81: the caller (process 1) calls annotate_table on the next table.
SerialCall ==
    /\ dsPc = "serial"
    /\ pc[1] = "idle"
    /\ Len(new_annotated_tables) < Len(Tables)
    /\ Enter(1, Tables[Len(new_annotated_tables) + 1])
    /\ UNCHANGED <<calls, rvars, evars, dvars>>

\* Variant: the result is inserted at the front of the list.
prepend(list, x) == <<x>> \o list

\* line 81: new_annotated_tables.append(...)
append(list, x) == Append(list, x)

\* line 81: the call returned; its result is appended to the list.
SerialAppend ==
    /\ dsPc = "serial"
    /\ pc[1] = "returned"
    /\ new_annotated_tables' = append(new_annotated_tables, ret[1])
    /\ completed' = Append(completed, Len(new_annotated_tables) + 1)
    /\ Forget(1)
    /\ UNCHANGED <<cache, invoked, computed, calls, rvars, evars,
                   max_workers, dsPc, fut, futResult, task, runs>>

\* line 81: the call raised; nothing catches it, annotate_dataset raises.
SerialRaise ==
    /\ dsPc = "serial"
    /\ pc[1] = "raised"
    /\ dsPc' = "raised"
    /\ UNCHANGED <<cache, locals, invoked, computed, calls, rvars, evars,
                   max_workers, fut, futResult, task, new_annotated_tables, completed, runs>>

\* lines 80 and 88: the loop is over, the list is returned.
SerialReturn ==
    /\ dsPc = "serial"
    /\ pc[1] = "idle"
    /\ Len(new_annotated_tables) = Len(Tables)
    /\ dsPc' = "returned"
    /\ UNCHANGED <<cache, locals, invoked, computed, calls, rvars, evars,
                   max_workers, fut, futResult, task, new_annotated_tables, completed, runs>>

\* The tables submitted to the pool so far.
Submitted(f) == Cardinality({i \in 1..NTables : f[i] # "none"})

\* lines 83-86: the executor's map takes the next table from the lazy
\* sequence and submits its task, one table after the other; the workers
\* run the tasks already submitted in the meantime. The results are taken
\* once every table is submitted.
Submit ==
    /\ dsPc = "submitting"
    /\ Submitted(fut) < Len(Tables)
    /\ fut' = [fut EXCEPT ![Submitted(fut) + 1] = "pending"]
    /\ dsPc' = IF Submitted(fut) + 1 = Len(Tables) THEN "parallel" ELSE "submitting"
    /\ UNCHANGED <<cache, locals, invoked, computed, calls, rvars, evars,
                   max_workers, futResult, task, new_annotated_tables, completed, runs>>

\* Variant: a task stays in the queue while a worker runs it, so that a
\* second free worker takes it too.
NextTaskRepeat(f) ==
    CHOOSE i \in 1..NTables :
        f[i] \in {"pending", "running"} /\ \A j \in 1..(i - 1) : f[j] \notin {"pending", "running"}

\* The pending task a free worker takes: tasks are queued in submission order.
NextTask(f) == CHOOSE i \in 1..NTables : f[i] = "pending" /\ \A j \in 1..(i - 1) : f[j] # "pending"

\* Variant: the pool has one process per process the machine can run.
PoolSizeAll(mw) == NProcs

\* line 85: max_workers=self._max_workers, the number of processes of the pool.
PoolSize(mw) == mw

\* lines 83-86: a free worker of the pool takes the next task and starts
\* annotate_table on its table. The workers are interchangeable: of the free
\* ones, the one with the lowest number takes the task.
WorkerTake(p) ==
    /\ dsPc \in {"submitting", "parallel", "aborting"}
    /\ p <= PoolSize(max_workers)
    /\ pc[p] = "idle"
    /\ \A q \in 1..(p - 1) : pc[q] # "idle"
    /\ \E i \in 1..NTables : fut[i] = "pending"
    /\ fut' = [fut EXCEPT ![NextTask(fut)] = "running"]
    /\ task' = [task EXCEPT ![p] = NextTask(fut)]
    /\ Enter(p, Tables[NextTask(fut)])
    /\ UNCHANGED <<calls, rvars, evars, max_workers, dsPc, futResult, new_annotated_tables, completed, runs>>

\* lines 83-86: the worker's call returned; the future holds the result.
WorkerDone(p) ==
    /\ dsPc \in {"submitting", "parallel", "aborting"}
    /\ pc[p] = "returned"
    /\ fut' = [fut EXCEPT ![task[p]] = "done"]
    /\ futResult' = [futResult EXCEPT ![task[p]] = ret[p]]
    /\ completed' = Append(completed, task[p])
    /\ task' = [task EXCEPT ![p] = 0]
    /\ Forget(p)
    /\ UNCHANGED <<cache, invoked, computed, calls, rvars, evars,
                   max_workers, dsPc, new_annotated_tables, runs>>

\* lines 83-86: the worker's call raised; the future holds the exception.
WorkerFail(p) ==
    /\ dsPc \in {"submitting", "parallel", "aborting"}
    /\ pc[p] = "raised"
    /\ fut' = [fut EXCEPT ![task[p]] = "failed"]
    /\ completed' = Append(completed, task[p])
    /\ task' = [task EXCEPT ![p] = 0]
    /\ Forget(p)
    /\ UNCHANGED <<cache, invoked, computed, calls, rvars, evars,
                   max_workers, dsPc, futResult, new_annotated_tables, runs>>

\* Variant: the results are taken as the workers finish.
NextResultAsCompleted(n, done) == IF Len(done) > n THEN done[n + 1] ELSE 0

\* lines 83-86: the future whose result process_map takes next, n results
\* taken so far: the executor's map yields the results in submission order.
NextResult(n, done) == n + 1

\* lines 83-86: the caller takes the next result from the pool.
Collect ==
    /\ dsPc = "parallel"
    /\ LET i == NextResult(Len(new_annotated_tables), completed)
       IN /\ i \in 1..NTables
          /\ fut[i] = "done"
          /\ new_annotated_tables' = append(new_annotated_tables, futResult[i])
    /\ UNCHANGED <<cache, locals, invoked, computed, calls, rvars, evars,
                   max_workers, dsPc, fut, futResult, task, completed, runs>>

\* The pending futures in submission order.
RECURSIVE PendingFrom(_, _)
PendingFrom(f, i) ==
    IF i > NTables THEN <<>>
    ELSE (IF f[i] = "pending" THEN <<i>> ELSE <<>>) \o PendingFrom(f, i + 1)

\* Variant: a failed task is skipped, an empty place is left in the list and
\* the run goes on.
CollectSkipFailed ==
    /\ dsPc = "parallel"
    /\ LET i == NextResult(Len(new_annotated_tables), completed)
       IN /\ i \in 1..NTables
          /\ fut[i] = "failed"
          /\ new_annotated_tables' = append(new_annotated_tables, NoTable)
    /\ UNCHANGED <<cache, locals, invoked, computed, calls, rvars, evars,
                   max_workers, dsPc, fut, futResult, task, completed, runs>>

\* lines 83-86: the next result is an exception. It leaves the executor's
\* map, which cancels the futures that are still pending; the first k of
\* them already sit in the pool's call queue (at most max_workers + 1) and
\* cannot be cancelled.
CollectRaise ==
    /\ dsPc = "parallel"
    /\ LET i == NextResult(Len(new_annotated_tables), completed)
           pend == PendingFrom(fut, 1)
       IN /\ i \in 1..NTables
          /\ fut[i] = "failed"
          /\ \E k \in 0..Min(Len(pend), max_workers + 1) :
                fut' = [j \in 1..NTables |->
                          IF \E m \in (k + 1)..Len(pend) : pend[m] = j
                          THEN "cancelled" ELSE fut[j]]
    /\ dsPc' = "aborting"
    /\ UNCHANGED <<cache, locals, invoked, computed, calls, rvars, evars,
                   max_workers, futResult, task, new_annotated_tables, completed, runs>>

\* lines 83-86: the executor is shut down, waiting for the tasks that are
\* queued or running; then the exception leaves annotate_dataset.
Shutdown ==
    /\ dsPc = "aborting"
    /\ \A i \in 1..NTables : fut[i] \notin {"pending", "running"}
    /\ dsPc' = "raised"
    /\ UNCHANGED <<cache, locals, invoked, computed, calls, rvars, evars,
                   max_workers, fut, futResult, task, new_annotated_tables, completed, runs>>

\* lines 83-88: every result is taken; the list is returned.
ParallelReturn ==
    /\ dsPc = "parallel"
    /\ Len(new_annotated_tables) = Len(Tables)
    /\ dsPc' = "returned"
    /\ UNCHANGED <<cache, locals, invoked, computed, calls, rvars, evars,
                   max_workers, fut, futResult, task, new_annotated_tables, completed, runs>>

\* The annotator is built with any max_workers smaller than the number of
\* processes the machine can run, so that the pool never uses all of them.
InitDS ==
    /\ InitState
    /\ max_workers \in 1..(NProcs - 1)
    /\ NoRanking
    /\ NoComparison

NextDS ==
    \/ StartDataset
    \/ StartDatasetRaise
    \/ Submit
    \/ SerialCall
    \/ SerialAppend
    \/ SerialRaise
    \/ SerialReturn
    \/ \E p \in Procs : WorkerTake(p)
    \/ \E p \in Procs : WorkerDone(p)
    \/ \E p \in Procs : WorkerFail(p)
    \/ Collect
    \/ CollectRaise
    \/ Shutdown
    \/ ParallelReturn
    \/ \E p \in Procs : Step(p)

\* annotate_dataset runs, one after the other, serial or with a pool.
SpecDS == InitDS /\ [][NextDS]_vars

\* The steps of a call whose generator terminates without error.
StepOk(p) ==
    \/ Annotate(p)
    \/ Open(p)
    \/ Dump(p)
    \/ Load(p)

NextDSOk ==
    \/ StartDataset
    \/ StartDatasetRaise
    \/ Submit
    \/ SerialCall
    \/ SerialAppend
    \/ SerialReturn
    \/ \E p \in Procs : WorkerTake(p)
    \/ \E p \in Procs : WorkerDone(p)
    \/ Collect
    \/ ParallelReturn
    \/ \E p \in Procs : StepOk(p)

\* The processes keep running: the caller's loop, the pool's workers and the
\* calls of annotate_table each take their next step when they can. Whether
\* annotate_dataset is called again is up to the user.
FairDSOk ==
    /\ WF_vars(Submit)
    /\ WF_vars(SerialCall)
    /\ WF_vars(SerialAppend)
    /\ WF_vars(SerialReturn)
    /\ WF_vars(Collect)
    /\ WF_vars(ParallelReturn)
    /\ \A p \in Procs : WF_vars(WorkerTake(p))
    /\ \A p \in Procs : WF_vars(WorkerDone(p))
    /\ \A p \in Procs : WF_vars(StepOk(p))

\* annotate_dataset runs in which every generator call terminates without
\* error.
SpecDSOk == InitDS /\ [][NextDSOk]_vars /\ FairDSOk

\* One call at a time: a call starts only when no other is in progress.
CallSeq(p, t) ==
    /\ \A q \in Procs : ~InCall(q)
    /\ Call(p, t)

NextSeq ==
    \/ \E p \in Procs, t \in InputTables : CallSeq(p, t)
    \/ \E p \in Procs : Step(p)

SpecSeq == Init /\ [][NextSeq]_vars

\* ---------------------------------------------------- weighting_by_ranking
\* Numbers are Python floats (IEEE 754 binary64), as the function, numpy,
\* scipy and scikit-learn compute with them: every operation gives the exact
\* result rounded to the nearest float, a tie to the float of even mantissa.
\* The values of the calls are far from overflow and underflow.
Abs(x) == IF x < 0 THEN 0 - x ELSE x

\* Natural numbers of any size: the sequence of their digits in base 2^15,
\* lowest digit first, without leading zero digit; 0 is the empty sequence.
DigitBits == 15
Base == 2 ^ DigitBits

RECURSIVE BFromNat(_)
BFromNat(n) == IF n = 0 THEN <<>> ELSE <<n % Base>> \o BFromNat(n \div Base)

RECURSIVE BNorm(_)
BNorm(a) ==
    IF a = <<>> THEN <<>>
    ELSE IF a[Len(a)] = 0 THEN BNorm(SubSeq(a, 1, Len(a) - 1))
    ELSE a

Digit(a, i) == IF i <= Len(a) THEN a[i] ELSE 0

RECURSIVE BCmpFrom(_, _, _)
BCmpFrom(a, b, i) ==
    IF i = 0 THEN 0
    ELSE IF a[i] < b[i] THEN 0 - 1
    ELSE IF a[i] > b[i] THEN 1
    ELSE BCmpFrom(a, b, i - 1)

\* -1, 0 or 1 as a < b, a = b or a > b.
BCmp(a, b) ==
    IF Len(a) < Len(b) THEN 0 - 1
    ELSE IF Len(a) > Len(b) THEN 1
    ELSE BCmpFrom(a, b, Len(a))

RECURSIVE BAddFrom(_, _, _, _)
BAddFrom(a, b, i, carry) ==
    IF i > Len(a) /\ i > Len(b)
    THEN IF carry = 0 THEN <<>> ELSE <<carry>>
    ELSE LET t == Digit(a, i) + Digit(b, i) + carry
         IN <<t % Base>> \o BAddFrom(a, b, i + 1, t \div Base)

BAdd(a, b) == BAddFrom(a, b, 1, 0)

RECURSIVE BSubFrom(_, _, _, _)
BSubFrom(a, b, i, borrow) ==
    IF i > Len(a) THEN <<>>
    ELSE LET t == a[i] - Digit(b, i) - borrow
         IN IF t < 0 THEN <<t + Base>> \o BSubFrom(a, b, i + 1, 1)
            ELSE <<t>> \o BSubFrom(a, b, i + 1, 0)

\* a - b, for a >= b.
BSub(a, b) == BNorm(BSubFrom(a, b, 1, 0))

RECURSIVE BMulDigitFrom(_, _, _, _)
BMulDigitFrom(a, d, i, carry) ==
    IF i > Len(a)
    THEN IF carry = 0 THEN <<>> ELSE <<carry>>
    ELSE LET t == a[i] * d + carry
         IN <<t % Base>> \o BMulDigitFrom(a, d, i + 1, t \div Base)

\* a * d, for a digit d.
BMulDigit(a, d) == IF d = 0 THEN <<>> ELSE BMulDigitFrom(a, d, 1, 0)

\* a * Base^n
RECURSIVE BShiftDigits(_, _)
BShiftDigits(a, n) == IF a = <<>> \/ n = 0 THEN a ELSE BShiftDigits(<<0>> \o a, n - 1)

RECURSIVE BMul(_, _)
BMul(a, b) ==
    IF b = <<>> THEN <<>>
    ELSE BAdd(BMulDigit(a, b[1]), BShiftDigits(BMul(a, Tail(b)), 1))

\* a * 2^k
BShl(a, k) == BShiftDigits(BMulDigit(a, 2 ^ (k % DigitBits)), k \div DigitBits)

RECURSIVE BDivDigitFrom(_, _, _, _)
BDivDigitFrom(a, d, i, rem) ==
    IF i = 0 THEN <<>>
    ELSE LET t == rem * Base + a[i]
         IN BDivDigitFrom(a, d, i - 1, t % d) \o <<t \div d>>

\* floor(a / 2^k)
BShr(a, k) ==
    LET n == k \div DigitBits
        high == IF n >= Len(a) THEN <<>> ELSE SubSeq(a, n + 1, Len(a))
    IN BNorm(BDivDigitFrom(high, 2 ^ (k % DigitBits), Len(high), 0))

\* The number of binary digits of a.
BBitLen(a) ==
    IF a = <<>> THEN 0
    ELSE (Len(a) - 1) * DigitBits
            + (CHOOSE n \in 1..DigitBits : 2 ^ (n - 1) <= a[Len(a)] /\ a[Len(a)] < 2 ^ n)

BIsOdd(a) == a # <<>> /\ a[1] % 2 = 1

\* The number of zero binary digits at the low end of a > 0.
RECURSIVE BTrailingZeros(_)
BTrailingZeros(a) ==
    IF a[1] = 0 THEN DigitBits + BTrailingZeros(Tail(a))
    ELSE CHOOSE n \in 0..(DigitBits - 1) : a[1] % (2 ^ (n + 1)) = 2 ^ n

\* <<floor(n / b), n mod b>> for the number n of the digits i..Len(a) of a
\* and b whose highest digit is Base/2 or more: long division, where a
\* quotient digit estimated from the two highest digits of the remainder is
\* at most 2 too large.
RECURSIVE BLongDiv(_, _, _)
BLongDiv(a, b, i) ==
    IF i > Len(a) THEN <<(<<>>), (<<>>)>>
    ELSE LET h == BLongDiv(a, b, i + 1)
             r == BNorm(<<a[i]>> \o h[2])
             n == Len(b)
             est == (Digit(r, n + 1) * Base + Digit(r, n)) \div b[n]
             qhat == IF est > Base - 1 THEN Base - 1 ELSE est
             cands == {c \in (qhat - 2)..qhat : c >= 0 /\ BCmp(BMulDigit(b, c), r) <= 0}
             q == CHOOSE c \in cands : \A d \in cands : d <= c
         IN <<BNorm(<<q>> \o h[1]), BSub(r, BMulDigit(b, q))>>

\* A float (IEEE 754 binary64) is <<s, m, e>>: the number s * m * 2^e with
\* the sign s in {-1, 0, 1} and m odd, of at most 53 binary digits.
Precision == 53
FZero == <<0, (<<>>), 0>>

\* s * m * 2^e with m odd.
FNorm(s, m, e) ==
    IF m = <<>> THEN FZero
    ELSE LET z == BTrailingZeros(m) IN <<s, BShr(m, z), e + z>>

\* s * m * 2^e rounded to the nearest float, a tie to the even one.
FRound(s, m, e) ==
    IF BBitLen(m) <= Precision THEN FNorm(s, m, e)
    ELSE LET sh == BBitLen(m) - Precision
             q == BShr(m, sh)
             c == BCmp(BSub(m, BShl(q, sh)), BShl(<<1>>, sh - 1))
         IN FNorm(s, IF c > 0 \/ (c = 0 /\ BIsOdd(q)) THEN BAdd(q, <<1>>) ELSE q, e + sh)

FromInt(n) == IF n = 0 THEN FZero ELSE FNorm(IF n < 0 THEN 0 - 1 ELSE 1, BFromNat(IF n < 0 THEN 0 - n ELSE n), 0)
FOne == FromInt(1)

FNeg(x) == <<0 - x[1], x[2], x[3]>>

\* x + y
FAdd(x, y) ==
    IF x[1] = 0 THEN y
    ELSE IF y[1] = 0 THEN x
    ELSE LET e == IF x[3] < y[3] THEN x[3] ELSE y[3]
             mx == BShl(x[2], x[3] - e)
             my == BShl(y[2], y[3] - e)
             c == BCmp(mx, my)
         IN IF x[1] = y[1] THEN FRound(x[1], BAdd(mx, my), e)
            ELSE IF c = 0 THEN FZero
            ELSE IF c > 0 THEN FRound(x[1], BSub(mx, my), e)
            ELSE FRound(y[1], BSub(my, mx), e)

\* x - y
FSub(x, y) == FAdd(x, FNeg(y))

\* x * y
FMul(x, y) ==
    IF x[1] = 0 \/ y[1] = 0 THEN FZero
    ELSE FRound(x[1] * y[1], BMul(x[2], y[2]), x[3] + y[3])

\* x / y, for y # 0: the quotient of the mantissas is taken to 55 binary
\* digits or more, with a last digit that tells whether a remainder is left.
FDiv(x, y) ==
    IF x[1] = 0 THEN FZero
    ELSE LET sy == (DigitBits - (BBitLen(y[2]) % DigitBits)) % DigitBits
             b == BShl(y[2], sy)
             sx == BBitLen(b) + Precision + 3 - BBitLen(x[2])
             qr == BLongDiv(BShl(x[2], sx), b, 1)
             m == BAdd(BAdd(qr[1], qr[1]), IF qr[2] = <<>> THEN <<>> ELSE <<1>>)
         IN FRound(x[1] * y[1], m, x[3] - y[3] - (sx - sy) - 1)

FLess(x, y) == FSub(x, y)[1] < 0
FLeq(x, y) == FSub(x, y)[1] <= 0

\* The float next below x > 0, math.nextafter(x, 0.0).
FPred(x) ==
    LET k == Precision - BBitLen(x[2])
    IN IF x[2] = <<1>>
       THEN FNorm(1, BSub(BShl(<<1>>, Precision), <<1>>), x[3] - Precision)
       ELSE FNorm(1, BSub(BShl(x[2], k), <<1>>), x[3] - k)

\* The float a decimal literal of value n / d is read as: the float nearest
\* to n / d.
Float(n, d) == FDiv(FromInt(n), FromInt(d))

\* data_model.generator.CandidateEmbeddings: candidate, context_emb,
\* abstract_emb; an embedding is a vector of integers or None.
CandidateEmbeddings(candidate, context_emb, abstract_emb) ==
    [candidate |-> candidate, context_emb |-> context_emb, abstract_emb |-> abstract_emb]

\* data_model.generator.ScoredCandidate: candidate, original_rank, distance,
\* score.
ScoredCandidate(candidate, original_rank, distance, score) ==
    [candidate |-> candidate, original_rank |-> original_rank,
     distance |-> distance, score |-> score]

\* The embeddings of the inputs: vectors whose norm is an integer.
Dot(u, v) == u[1] * v[1] + u[2] * v[2]
VecNorm(u) == CHOOSE n \in 0..(Abs(u[1]) + Abs(u[2])) : n * n = Dot(u, u)

\* line 68, scipy.spatial.distance.cosine: 1.0 - u.v / (|u| |v|). The
\* products and the norms of the inputs are integers, so that the quotient
\* is the only operation that rounds before the subtraction.
cosine(u, v) == FSub(FOne, Float(Dot(u, v), VecNorm(u) * VecNorm(v)))

\* The truth value Python gives a number or None in a condition.
Truthy(x) == x # None /\ x[1] # 0

\* lines 58-60: the two assertions on the parameters.
ParamsAccepted(a, dflt) ==
    /\ Truthy(dflt) => FLeq(FZero, dflt)
    /\ FLeq(FZero, a) /\ FLeq(a, FOne)

\* line 65: the candidate has both embeddings.
HasEmbeddings(c_emb) == c_emb.context_emb # None /\ c_emb.abstract_emb # None

\* lines 64-74: the candidates that go to the scored list, in input order,
\* with their 0-based rank and their distance (the cosine distance, or the
\* default score for a candidate without embeddings).
RECURSIVE ScoredPart(_, _, _)
ScoredPart(cands, dflt, i) ==
    IF i > Len(cands) THEN <<>>
    ELSE (IF HasEmbeddings(cands[i])
          THEN <<ScoredCandidate(cands[i].candidate, i - 1,
                                 cosine(cands[i].context_emb, cands[i].abstract_emb), None)>>
          ELSE IF Truthy(dflt)
          THEN <<ScoredCandidate(cands[i].candidate, i - 1, dflt, None)>>
          ELSE <<>>)
         \o ScoredPart(cands, dflt, i + 1)

\* lines 75-80: the candidates that are not scored, in input order.
RECURSIVE NonScoredPart(_, _, _)
NonScoredPart(cands, dflt, i) ==
    IF i > Len(cands) THEN <<>>
    ELSE (IF ~HasEmbeddings(cands[i]) /\ ~Truthy(dflt)
          THEN <<ScoredCandidate(cands[i].candidate, i - 1, None, None)>>
          ELSE <<>>)
         \o NonScoredPart(cands, dflt, i + 1)

\* The smallest and the largest of a non-empty sequence of floats.
RECURSIVE FMin(_)
FMin(xs) ==
    IF Len(xs) = 1 THEN xs[1]
    ELSE LET m == FMin(Tail(xs)) IN IF FLeq(xs[1], m) THEN xs[1] ELSE m
RECURSIVE FMax(_)
FMax(xs) ==
    IF Len(xs) = 1 THEN xs[1]
    ELSE LET m == FMax(Tail(xs)) IN IF FLeq(m, xs[1]) THEN xs[1] ELSE m

\* The releases of scikit-learn differ in the data range they take for
\* constant: older ones a range equal to 0.0, newer ones a range below
\* 10 * eps, eps = 2^-52. near_constant tells that the release in use is of
\* the second kind.
Releases == BOOLEAN
TenEps == FMul(FromInt(10), <<1, <<1>>, 0 - 52>>)

\* sklearn's _handle_zeros_in_scale: a constant range counts as 1.
HandleZerosInScale(data_range, near_constant) ==
    IF data_range = FZero \/ (near_constant /\ FLess(data_range, TenEps))
    THEN FOne ELSE data_range

\* Variant: a range of zero maps every value to 1.
MinMaxScalerFitOne(xs, near_constant) ==
    LET data_range == FSub(FMax(xs), FMin(xs))
        scale == FDiv(FOne, HandleZerosInScale(data_range, near_constant))
    IN [scale_ |-> scale,
        min_ |-> FSub(IF data_range = FZero THEN FOne ELSE FZero, FMul(FMin(xs), scale))]

\* sklearn MinMaxScaler().fit(X) for the feature range (0, 1): the scale is
\* 1 / (max - min), a constant range counting as 1, and
\* min_ = 0 - min * scale.
MinMaxScalerFit(xs, near_constant) ==
    LET data_range == FSub(FMax(xs), FMin(xs))
        scale == FDiv(FOne, HandleZerosInScale(data_range, near_constant))
    IN [scale_ |-> scale, min_ |-> FSub(FZero, FMul(FMin(xs), scale))]

\* MinMaxScaler.transform([[x]])[0][0]
MinMaxScalerTransform(scaler, x) == FAdd(FMul(x, scaler.scale_), scaler.min_)

\* line 87: the rank scaler is fitted on the ranks 0 .. len(candidates) - 1.
rank_scaler(cands, near_constant) ==
    MinMaxScalerFit([i \in 1..Len(cands) |-> FromInt(i - 1)], near_constant)

\* line 88: the distance scaler is fitted on the distances of the scored list.
distance_scaler(scored, near_constant) ==
    MinMaxScalerFit([i \in 1..Len(scored) |-> scored[i].distance], near_constant)

\* lines 94-95: alpha * normalized rank + (1 - alpha) * normalized distance.
FusedScore(a, nrank, ndist) ==
    FAdd(FMul(a, nrank), FMul(FSub(FOne, a), ndist))

\* lines 90-96: every candidate of the scored list gets its fused score.
WithScores(cands, scored, a, near_constant) ==
    LET rs == rank_scaler(cands, near_constant)
        ds == distance_scaler(scored, near_constant)
    IN [i \in 1..Len(scored) |->
           ScoredCandidate(scored[i].candidate, scored[i].original_rank, scored[i].distance,
               FusedScore(a,
                   MinMaxScalerTransform(rs, FromInt(scored[i].original_rank)),
                   MinMaxScalerTransform(ds, scored[i].distance)))]

\* x put into the sorted sequence xs after the elements that do not come
\* later than it (ascending score, or descending score when reverse).
RECURSIVE InsertSorted(_, _, _)
InsertSorted(xs, x, reverse) ==
    IF xs = <<>> THEN <<x>>
    ELSE IF (IF reverse THEN FLeq(x.score, xs[1].score) ELSE FLeq(xs[1].score, x.score))
    THEN <<xs[1]>> \o InsertSorted(Tail(xs), x, reverse)
    ELSE <<x>> \o xs

RECURSIVE StableSort(_, _, _)
StableSort(done, rest, reverse) ==
    IF rest = <<>> THEN done
    ELSE StableSort(InsertSorted(done, rest[1], reverse), Tail(rest), reverse)

\* Variant: the scored list is sorted by descending score.
sorted_reverse(xs) == StableSort(<<>>, xs, TRUE)

\* line 97: sorted(scored_candidates, key=lambda s_cand: s_cand.score), a
\* stable sort by ascending score.
sorted(xs) == StableSort(<<>>, xs, FALSE)

\* Variant: the candidates without score are left out.
ScoredOnly(ranked, non_scored) == ranked

\* Variant: the candidates without score come first.
NonScoredFirst(ranked, non_scored) == non_scored \o ranked

\* line 97: the sorted scored list followed by the non-scored list.
RankedThenNonScored(ranked, non_scored) == ranked \o non_scored

\* Variant: the guard returns an empty list.
SafeGuardEmpty(non_scored) == <<>>

\* line 83: the guard returns the non-scored list.
SafeGuardResult(non_scored) == non_scored

\* Variant: the parameters are not checked.
ParamsUnchecked(a, dflt) == TRUE

\* lines 58-60 as the function applies them.
ParamsCheck(a, dflt) == ParamsAccepted(a, dflt)

\* The inputs of the calls. A candidate has the context and the abstract
\* embedding, at cosine distance 0.0, 0.4, 0.72 or 1.0, or lacks one of the
\* two.
EmbeddingPairs ==
    {<<<<1, 0>>, <<1, 0>>>>, <<<<1, 0>>, <<3, 4>>>>, <<<<1, 0>>, <<7, 24>>>>,
     <<<<1, 0>>, <<0, 1>>>>, <<<<1, 0>>, None>>, <<None, <<0, 1>>>>}

RECURSIVE SeqsUpTo(_, _)
SeqsUpTo(S, n) ==
    IF n = 0 THEN {<<>>}
    ELSE LET shorter == SeqsUpTo(S, n - 1)
         IN shorter \cup {Append(q, x) : q \in {r \in shorter : Len(r) = n - 1}, x \in S}

\* The candidate lists: candidate i of a list is named i.
CandidateLists ==
    {[i \in 1..Len(q) |-> CandidateEmbeddings(i, q[i][1], q[i][2])] :
        q \in SeqsUpTo(EmbeddingPairs, MaxCands)}

\* alpha: -0.5, 0.0, 0.5, 0.6, 1.0 and 1.5.
Alphas == {Float(0 - 1, 2), FZero, Float(1, 2), Float(3, 5), FOne, Float(3, 2)}
\* default_score: None, -0.5, 0.0, 0.02, 0.3, 0.39999999999999997 (the float
\* next below the cosine distance 0.4) and 0.9.
DefaultScores ==
    {None, Float(0 - 1, 2), FZero, Float(1, 50), Float(3, 10), FPred(Float(2, 5)),
     Float(9, 10)}

\* line 45: weighting_by_ranking is called.
InitRank ==
    /\ InitState
    /\ max_workers = 1
    /\ candidates \in CandidateLists
    /\ alpha \in Alphas
    /\ default_score \in DefaultScores
    /\ wpc = "called"
    /\ scored_candidates = <<>>
    /\ non_scored_candidates = <<>>
    /\ ranking = <<>>
    /\ NoComparison

\* lines 58-60: a failed assertion raises AssertionError.
CheckParams ==
    /\ wpc = "called"
    /\ wpc' = IF ParamsCheck(alpha, default_score) THEN "partition" ELSE "raised"
    /\ UNCHANGED <<avars, evars, candidates, alpha, default_score,
                   scored_candidates, non_scored_candidates, ranking>>

\* lines 62-80: the candidates are split into the two lists.
Partition ==
    /\ wpc = "partition"
    /\ scored_candidates' = ScoredPart(candidates, default_score, 1)
    /\ non_scored_candidates' = NonScoredPart(candidates, default_score, 1)
    /\ wpc' = "guard"
    /\ UNCHANGED <<avars, evars, candidates, alpha, default_score, ranking>>

\* lines 82-83: no candidate, or none scored: the non-scored list is returned.
SafeGuard ==
    /\ wpc = "guard"
    /\ candidates = <<>> \/ scored_candidates = <<>>
    /\ ranking' = SafeGuardResult(non_scored_candidates)
    /\ wpc' = "returned"
    /\ UNCHANGED <<avars, evars, candidates, alpha, default_score,
                   scored_candidates, non_scored_candidates>>

\* lines 85-97: the scored candidates get their fused score and are sorted;
\* the non-scored ones follow. The scalers are those of the installed release
\* of scikit-learn.
Rank ==
    /\ wpc = "guard"
    /\ ~(candidates = <<>> \/ scored_candidates = <<>>)
    /\ \E near_constant \in Releases :
        LET with_scores == WithScores(candidates, scored_candidates, alpha, near_constant)
        IN /\ scored_candidates' = with_scores
           /\ ranking' = RankedThenNonScored(sorted(with_scores), non_scored_candidates)
    /\ wpc' = "returned"
    /\ UNCHANGED <<avars, evars, candidates, alpha, default_score, non_scored_candidates>>

NextRank ==
    \/ CheckParams
    \/ Partition
    \/ SafeGuard
    \/ Rank

SpecRank == InitRank /\ [][NextRank]_vars

\* ------------------------------------------------------------------ Entity

\* The characters of the URIs that are compared, as code points:
\* '%', '1', '4', 'A' and 'a'. They spell escapes of letters ("%41" is 'A',
\* "%4A" is 'J'), of control characters and of bytes above 127, escapes cut
\* short ("%4", "%"), and letters in both cases.
UriChars == {37, 49, 52, 65, 97}

\* The URIs: every string of at most MaxUriLen characters.
Uris == UNION {[1..n -> UriChars] : n \in 0..MaxUriLen}

\* line 19, urllib.parse.unquote: the hexadecimal digits and their values.
IsHex(c) == c \in (48..57) \cup (65..70) \cup (97..102)
HexVal(c) == IF c \in 48..57 THEN c - 48 ELSE IF c \in 65..70 THEN c - 55 ELSE c - 87

\* line 19, urllib.parse.unquote: the character of an escaped byte. The bytes
\* are decoded as UTF-8 with errors='replace'; a byte above 127 that begins no
\* valid sequence becomes U+FFFD. No escape over UriChars is a lead byte.
DecodeByte(b) == IF b < 128 THEN b ELSE 65533

\* line 19, urllib.parse.unquote: every '%' followed by two hexadecimal
\* digits is replaced by the byte they spell, anything else is kept.
RECURSIVE unquote(_)
unquote(s) ==
    IF s = <<>> THEN <<>>
    ELSE IF s[1] = 37 /\ Len(s) >= 3 /\ IsHex(s[2]) /\ IsHex(s[3])
    THEN <<DecodeByte(16 * HexVal(s[2]) + HexVal(s[3]))>> \o unquote(SubSeq(s, 4, Len(s)))
    ELSE <<s[1]>> \o unquote(Tail(s))

\* line 19, str.lower: the capital letters A-Z become small, the other
\* characters that unquote yields here have no lower case of their own.
lower(s) == [i \in 1..Len(s) |-> IF s[i] \in 65..90 THEN s[i] + 32 ELSE s[i]]

\* The outcome of an expression: the bool it yields or the exception raised.
Bool(b) == IF b THEN "True" ELSE "False"

\* lines 17-20, Entity.__eq__. Line 1 imports the package urllib and not its
\* submodule urllib.parse: the attribute exists only when some other module
\* of the process has imported urllib.parse, and line 19 raises otherwise.
Entity__eq__(self, o, loaded) ==
    IF o.cls = "Entity"
    THEN IF loaded
         THEN Bool(lower(unquote(self.fields[1])) = lower(unquote(o.fields[1])))
         ELSE "AttributeError"
    ELSE "False"

\* a == b in Python. Entity.__eq__ answers for an Entity on the left; with a
\* tuple on the left the reflected method of the subclass Entity is tried
\* first, with a str on the left str.__eq__ declines and the reflected method
\* answers.
PyEq(a, b, loaded) ==
    IF a.cls = "Entity" THEN Entity__eq__(a, b, loaded)
    ELSE IF b.cls = "Entity" THEN Entity__eq__(b, a, loaded)
    ELSE Bool(a = b)

\* hash(v) in Python. lines 14-20 define no __hash__, and a NamedTuple class
\* keeps tuple.__hash__, a function of the fields as they were given; a str
\* hashes by its characters. Values with different content hash differently.
PyHash(v) == <<IF v.cls = "str" THEN "str" ELSE "tuple", v.fields>>

\* The values an Entity is compared with: Entities, plain tuples of one
\* string, and strings.
Values ==
    {Value("Entity", Entity(u)) : u \in Uris}
        \cup {Value("tuple", <<u>>) : u \in Uris}
        \cup {Value("str", u) : u \in Uris}

\* An Entity and a value are about to be compared, in a process that has or
\* has not imported urllib.parse.
InitEntity ==
    /\ InitState
    /\ max_workers = 1
    /\ NoRanking
    /\ parseLoaded \in BOOLEAN
    /\ left \in {Value("Entity", Entity(u)) : u \in Uris}
    /\ right \in Values
    /\ epc = "start"
    /\ eqLR = ""
    /\ eqRL = ""
    /\ hashL = <<>>
    /\ hashR = <<>>

\* left == right and right == left are evaluated.
Compare ==
    /\ epc = "start"
    /\ eqLR' = PyEq(left, right, parseLoaded)
    /\ eqRL' = PyEq(right, left, parseLoaded)
    /\ epc' = "compared"
    /\ UNCHANGED <<avars, rvars, parseLoaded, left, right, hashL, hashR>>

\* hash(left) and hash(right) are evaluated, as a set or a dict does to place
\* its keys.
Hash ==
    /\ epc = "compared"
    /\ hashL' = PyHash(left)
    /\ hashR' = PyHash(right)
    /\ epc' = "hashed"
    /\ UNCHANGED <<avars, rvars, parseLoaded, left, right, eqLR, eqRL>>

NextEntity ==
    \/ Compare
    \/ Hash

SpecEntity == InitEntity /\ [][NextEntity]_vars

\* ------------------------------------------------------------ properties
\* The file of key k holds a complete serialized table.
Complete(k) == cache[k].exists /\ Loadable(cache[k].bytes)

\* Process p invokes the generator in this step.
Invokes(p) == pc[p] = "annotate" /\ pc'[p] # "annotate"

\* The cells of table t whose search key is key.
CellsOf(t, key) == {i \in DOMAIN t.cells : t.cells[i] = key}

\* C1, as stated: over sequential annotate_table calls on one key the
\* generator is invoked at most once in total (no invocation for a key for
\* which it has been invoked before).
C1_InvokedAtMostOnce ==
    [][\A p \in Procs : Invokes(p) => ~invoked[filename(tbl[p])]]_vars

\* C1, amended: over sequential annotate_table calls the generator is invoked
\* for a key only while the key has no entry and no invocation for it has had
\* all its results consumed (a call in which the generator raised stored
\* nothing, so the next call invokes it again); a call that starts once the
\* entry is stored goes to the load, and the stored artifact stays identical.
C1_AtMostOnceCompute ==
    [][/\ \A p \in Procs : Invokes(p) =>
            /\ ~cache[filename(tbl[p])].exists
            /\ ~computed[filename(tbl[p])]
       /\ \A p \in Procs : (~InCall(p) /\ InCall(p)' /\ Complete(filename(tbl'[p]))) =>
            pc'[p] = "load"
       /\ \A k \in Keys : Complete(k) => cache'[k] = cache[k]]_vars

\* A call on a key computed by an earlier call has returned without invoking
\* the generator.
C1_Witness ==
    \E p \in Procs :
        /\ pc[p] = "returned"
        /\ genArgs[p] = <<>>
        /\ computed[filename(tbl[p])]

\* C2: an existing cache entry is never deleted, and no call that started
\* when the entry existed changes the cache, whatever table it was passed
\* and however the calls interleave.
C2_EntryImmutable ==
    [][/\ \A k \in Keys : cache[k].exists => cache'[k].exists
       /\ \A p \in Procs : (InCall(p) /\ entryAtStart[p] /\ pc'[p] # pc[p]) =>
            cache' = cache]_vars

\* A call that found the entry has returned although the table passed to it
\* has other cells than the stored one.
C2_Witness ==
    \E p \in Procs :
        /\ pc[p] = "returned"
        /\ entryAtStart[p]
        /\ Complete(filename(tbl[p]))
        /\ cache[filename(tbl[p])].bytes[3] # tbl[p].cells

\* C3: when the generator raises, in get_candidates or while its results
\* are consumed, the exception leaves annotate_table (the call never goes
\* on), the failed call leaves the cache as it was, and in a sequence of
\* calls the key of the table has no entry when the call has failed.
C3_GeneratorFailure ==
    [][\A p \in Procs :
        /\ err'[p] = "GeneratorFailure" => pc'[p] = "raised"
        /\ (err[p] # "GeneratorFailure" /\ err'[p] = "GeneratorFailure") =>
            /\ cache' = cache
            /\ ~cache'[filename(tbl'[p])].exists]_vars

\* The generator raised after a pair was consumed: a cell is annotated in
\* memory and the call has raised.
C3_Witness ==
    \E p \in Procs :
        /\ pc[p] = "raised"
        /\ err[p] = "GeneratorFailure"
        /\ results[p] # {}
        /\ \E i \in DOMAIN tbl[p].ann : tbl[p].ann[i] # None

\* C4, as stated: in every reachable state a cache entry that exists holds
\* a complete serialized table, and no call fails to load an entry it found.
C4_PresenceIsCommitMarker ==
    /\ \A k \in Keys : cache[k].exists => Loadable(cache[k].bytes)
    /\ \A p \in Procs : err[p] # "EOFError"

\* C5: after a call that missed the cache has returned, the cells of every
\* search key returned with candidates carry the Entity of the first
\* candidate, and the cells of every key returned without candidates carry
\* no annotation.
C5_FirstCandidate ==
    \A p \in Procs : (pc[p] = "returned" /\ ~entryAtStart[p]) =>
        \A pair \in results[p] : \A cell \in CellsOf(tbl[p], pair[1]) :
            IF pair[2] # <<>>
            THEN tbl[p].ann[cell] = <<pair[2][1]>>
            ELSE tbl[p].ann[cell] = None

\* A miss has returned for a table with two cells sharing a key that got two
\* candidates and a third cell whose key got none.
C5_Witness ==
    \E p \in Procs :
        /\ pc[p] = "returned"
        /\ ~entryAtStart[p]
        /\ tbl[p].cells = <<"a", "a", "b">>
        /\ results[p] = {<<"a", <<"E2", "E1">>>>, <<"b", <<>>>>}
        /\ tbl[p].ann = <<<<"E2">>, <<"E2">>, None>>

\* C6: a call that missed the cache invokes the generator exactly once, with
\* the whole table, whatever the number of cells; a call that hit does not
\* invoke it.
C6_OneInvocation ==
    \A p \in Procs :
        /\ (pc[p] \in {"open", "dump", "load", "returned"} /\ ~entryAtStart[p]) =>
            /\ Len(genArgs[p]) = 1
            /\ genArgs[p][1].tab_id = tbl[p].tab_id
            /\ genArgs[p][1].dataset_id = tbl[p].dataset_id
            /\ genArgs[p][1].cells = tbl[p].cells
        /\ entryAtStart[p] => genArgs[p] = <<>>

\* A miss has returned for a table of three cells, two of them sharing a key.
C6_Witness ==
    \E p \in Procs :
        /\ pc[p] = "returned"
        /\ ~entryAtStart[p]
        /\ Len(tbl[p].cells) = 3
        /\ Len(genArgs[p]) = 1

\* C7: at every return of annotate_table, hit or miss, the returned table is
\* the artifact stored under the key of the table at that moment.
C7_ReturnsStored ==
    [][\A p \in Procs : (pc[p] # "returned" /\ pc'[p] = "returned") =>
            /\ cache'[filename(tbl'[p])].exists
            /\ cache'[filename(tbl'[p])].bytes = Pickle(ret'[p])]_vars

\* A hit has returned a stored table whose cells and annotations differ from
\* those of the table passed in.
C7_Witness ==
    \E p \in Procs :
        /\ pc[p] = "returned"
        /\ entryAtStart[p]
        /\ ret[p].cells # tbl[p].cells
        /\ ret[p].ann # tbl[p].ann

\* C8: a parallel annotate_dataset that returns, returns one annotated table
\* for each table of the dataset, none missing and none twice, each the
\* artifact stored for it.
C8_OnePerTable ==
    (dsPc = "returned" /\ max_workers > 1) =>
        /\ Len(new_annotated_tables) = NTables
        /\ \A i \in 1..NTables :
            /\ Cardinality({j \in DOMAIN new_annotated_tables :
                    new_annotated_tables[j].tab_id = get_tables[i].tab_id}) = 1
            /\ \E j \in DOMAIN new_annotated_tables :
                    Pickle(new_annotated_tables[j]) = cache[filename(get_tables[i])].bytes

\* A parallel run has returned after the last table's worker finished before
\* the worker of an earlier table.
C8_Witness ==
    /\ dsPc = "returned"
    /\ max_workers > 1
    /\ Len(new_annotated_tables) = NTables
    /\ completed[Len(completed)] # NTables

\* C9: with max_workers = 1 only the caller runs annotate_table, one table at
\* a time, and the i-th table returned is the annotation of the i-th table
\* the dataset yields.
C9_SerialOrder ==
    max_workers = 1 =>
        /\ \A p \in Procs : p # 1 => pc[p] = "idle"
        /\ \A j \in DOMAIN new_annotated_tables :
            /\ new_annotated_tables[j].tab_id = get_tables[j].tab_id
            /\ new_annotated_tables[j].cells = get_tables[j].cells
        /\ dsPc = "returned" =>
            /\ Len(new_annotated_tables) = NTables
            /\ \A i \in 1..NTables :
                Pickle(new_annotated_tables[i]) = cache[filename(get_tables[i])].bytes

\* A serial run has returned all the tables, one of them annotated.
C9_Witness ==
    /\ dsPc = "returned"
    /\ max_workers = 1
    /\ Len(new_annotated_tables) = NTables
    /\ \E j \in DOMAIN new_annotated_tables :
        \E c \in DOMAIN new_annotated_tables[j].ann : new_annotated_tables[j].ann[c] # None

\* C10, as stated: the list a parallel run returns is in the order in which
\* the workers finished.
C10_CompletionOrder ==
    (dsPc = "returned" /\ max_workers > 1) =>
        \A j \in DOMAIN new_annotated_tables :
            new_annotated_tables[j].tab_id = get_tables[completed[j]].tab_id

\* C10, amended: the list a parallel run returns is in dataset iteration
\* order, whatever the order in which the workers finished.
C10_IterationOrder ==
    max_workers > 1 =>
        /\ \A j \in DOMAIN new_annotated_tables :
            new_annotated_tables[j].tab_id = get_tables[j].tab_id
        /\ dsPc = "returned" => Len(new_annotated_tables) = NTables

\* A parallel run has returned although the workers did not finish in
\* iteration order.
C10_Witness ==
    /\ dsPc = "returned"
    /\ max_workers > 1
    /\ \E j \in DOMAIN completed : completed[j] # j

\* The run of annotate_dataset uses the pool.
InPool == dsPc \in {"submitting", "parallel", "aborting"}

\* C11: during a parallel run over tables with distinct ids no two workers
\* are inside annotate_table for the same key at the same time, a cache entry
\* changes only by a step of the one worker that runs the task of its table,
\* and a task is run once (it starts only from the queue).
C11_ExclusiveKey ==
    [][InPool' =>
        /\ \A p, q \in Procs : (p # q /\ InCall(p)' /\ InCall(q)') =>
                filename(tbl'[p]) # filename(tbl'[q])
        /\ \A k \in Keys : cache'[k] # cache[k] =>
                \E p \in Procs :
                    /\ pc[p] \in {"open", "dump"}
                    /\ task[p] \in 1..NTables
                    /\ filename(tbl[p]) = k
                    /\ filename(Tables[task[p]]) = k
                    /\ fut[task[p]] = "running"
                    /\ \A q \in Procs : q # p => task[q] # task[p]
        /\ \A i \in 1..NTables : (fut[i] # "running" /\ fut'[i] = "running") =>
                fut[i] = "pending"]_vars

\* Two workers are writing at the same time, each the entry of its own table.
C11_Witness ==
    /\ dsPc = "parallel"
    /\ \E p, q \in Procs :
        /\ p # q
        /\ pc[p] = "dump"
        /\ pc[q] = "dump"
        /\ filename(tbl[p]) # filename(tbl[q])

\* C12: in a parallel run at most max_workers processes are busy with a
\* table at any moment, each busy worker runs one task, and from the cache
\* check to the return it handles the one table of that task.
C12_PoolBound ==
    [][InPool' =>
        /\ Cardinality({p \in Procs : pc'[p] # "idle"}) <= max_workers'
        /\ Cardinality({i \in 1..NTables : fut'[i] = "running"}) <= max_workers'
        /\ \A p \in Procs : pc'[p] # "idle" =>
                /\ task'[p] \in 1..NTables
                /\ fut'[task'[p]] = "running"
                /\ tbl'[p].tab_id = Tables[task'[p]].tab_id
                /\ tbl'[p].dataset_id = Tables[task'[p]].dataset_id
                /\ tbl'[p].cells = Tables[task'[p]].cells
                /\ \A q \in Procs : (q # p /\ pc'[q] # "idle") => task'[q] # task'[p]
        /\ \A p \in Procs : (InPool /\ pc[p] # "idle" /\ pc'[p] # "idle") =>
                task'[p] = task[p]]_vars

\* The pool is smaller than the machine: max_workers workers are inside
\* annotate_table, a further task waits in the queue and a process is idle.
C12_Witness ==
    /\ dsPc = "parallel"
    /\ max_workers < NProcs
    /\ Cardinality({p \in Procs : InCall(p)}) = max_workers
    /\ \E i \in 1..NTables : fut[i] = "pending"
    /\ \E p \in Procs : pc[p] = "idle"

\* C13: annotate_dataset never returns after the annotation of a table of
\* the run has failed: a run that returns has no failed task, holds one
\* table for each table of the dataset, and the step that ends a run in
\* which a call raised ends it with the exception.
C13_FailurePropagates ==
    [][/\ dsPc' = "returned" =>
            /\ \A i \in 1..NTables : fut'[i] \notin {"failed", "cancelled"}
            /\ \A p \in Procs : pc'[p] # "raised"
            /\ Len(new_annotated_tables') = NTables
            /\ \A i \in 1..NTables :
                    new_annotated_tables'[i].tab_id = Tables[i].tab_id
       /\ (/\ dsPc \in {"serial", "parallel", "aborting"}
           /\ \/ \E p \in Procs : pc[p] = "raised"
              \/ \E i \in 1..NTables : fut[i] = "failed") =>
            (dsPc' # dsPc => dsPc' \in {"aborting", "raised"})]_vars

\* A parallel run has raised: the first table failed, a later table had been
\* annotated and a task that had not started was cancelled.
C13_Witness ==
    /\ dsPc = "raised"
    /\ max_workers > 1
    /\ fut[1] = "failed"
    /\ \E i \in 1..NTables : fut[i] = "done"
    /\ \E i \in 1..NTables : fut[i] = "cancelled"

\* The entries of the returned list that carry a score.
ScoredEntries == {i \in DOMAIN ranking : ranking[i].score # None}

\* Candidate i of the input has both embeddings.
Scorable(i) == candidates[i].context_emb # None /\ candidates[i].abstract_emb # None

\* The parameters are outside their domain: alpha outside [0, 1] or a
\* negative default score.
BadParams ==
    \/ FLess(alpha, FZero)
    \/ FLess(FOne, alpha)
    \/ default_score # None /\ FLess(default_score, FZero)

\* C14: a call with alpha < 0, alpha > 1 or default_score < 0 never gets
\* past the check of the parameters: it raises with both lists still empty
\* and nothing returned.
C14_RejectsBadParams ==
    BadParams =>
        /\ wpc \in {"called", "raised"}
        /\ scored_candidates = <<>>
        /\ non_scored_candidates = <<>>
        /\ ranking = <<>>

\* A call with a negative default score, a valid alpha and candidates has
\* raised.
C14_Witness ==
    /\ wpc = "raised"
    /\ default_score # None
    /\ FLess(default_score, FZero)
    /\ alpha = Float(1, 2)
    /\ Len(candidates) >= 2

\* C15: without default score and without a candidate that has both
\* embeddings, the returned list holds every candidate in input order with
\* its original rank and neither distance nor score.
C15_AllUnscorable ==
    (wpc = "returned" /\ default_score = None /\ \A i \in DOMAIN candidates : ~Scorable(i)) =>
        ranking = [i \in DOMAIN candidates |->
                      ScoredCandidate(candidates[i].candidate, i - 1, None, None)]

\* A call without default score on two or more candidates, none with both
\* embeddings, has returned.
C15_Witness ==
    /\ wpc = "returned"
    /\ default_score = None
    /\ Len(candidates) >= 2
    /\ \A i \in DOMAIN candidates : ~Scorable(i)

\* C16, as stated: with a default score (here a positive one) every candidate
\* lacking an embedding is returned with a fused score equal to the default
\* score.
C16_DefaultScoreIsFinalScore ==
    (wpc = "returned" /\ default_score # None /\ FLess(FZero, default_score)) =>
        \A i \in DOMAIN candidates : ~Scorable(i) =>
            \E j \in DOMAIN ranking :
                /\ ranking[j].original_rank = i - 1
                /\ ranking[j].score = default_score

\* C17, as stated: with default_score = 0 every candidate lacking an
\* embedding is returned in the scored set, with the score 0 given to it.
C17_ZeroIsProvided ==
    (wpc = "returned" /\ default_score = FZero) =>
        \A i \in DOMAIN candidates : ~Scorable(i) =>
            \E j \in DOMAIN ranking :
                /\ ranking[j].original_rank = i - 1
                /\ ranking[j].score # None
                /\ ranking[j].distance = FZero

\* C18: without default score and with a scorable candidate, the returned
\* list holds every candidate once; the entries with a score are those of the
\* scorable candidates and come first; the entries of the unscorable ones
\* follow in their original relative order, each with its original rank and
\* neither distance nor score.
C18_UnscoredAfterScored ==
    (wpc = "returned" /\ default_score = None /\ \E i \in DOMAIN candidates : Scorable(i)) =>
        /\ Len(ranking) = Len(candidates)
        /\ \A i \in DOMAIN candidates :
            \E j \in DOMAIN ranking :
                /\ ranking[j].original_rank = i - 1
                /\ ranking[j].candidate = candidates[i].candidate
                /\ (ranking[j].score # None) = Scorable(i)
                /\ ~Scorable(i) => ranking[j].distance = None
        /\ \A j, k \in DOMAIN ranking :
            /\ (ranking[j].score # None /\ ranking[k].score = None) => j < k
            /\ (ranking[j].score = None /\ ranking[k].score = None /\ j < k) =>
                    ranking[j].original_rank < ranking[k].original_rank

\* Without default score, the last candidate was the only scorable one: it
\* comes first, followed by the two unscorable candidates.
C18_Witness ==
    /\ wpc = "returned"
    /\ default_score = None
    /\ Len(ranking) = 3
    /\ ranking[1].original_rank = 2
    /\ ranking[1].score # None
    /\ ranking[2].score = None
    /\ ranking[3].score = None

\* The distances of the scored entries of the returned list.
ScoredDistances == {ranking[j].distance : j \in ScoredEntries}
MinDistance == CHOOSE d \in ScoredDistances : \A e \in ScoredDistances : FLeq(d, e)
MaxDistance == CHOOSE d \in ScoredDistances : \A e \in ScoredDistances : FLeq(e, d)

\* Min-max normalization of x over the range lo .. hi as MinMaxScaler
\* computes it: x * scale + min_ with scale = 1 / (hi - lo), a constant
\* range counting as 1, and min_ = 0 - lo * scale.
MinMaxNormalized(x, lo, hi, near_constant) ==
    LET scale == FDiv(FOne, HandleZerosInScale(FSub(hi, lo), near_constant))
    IN FAdd(FMul(x, scale), FSub(FZero, FMul(lo, scale)))

\* Min-max normalization of the rank over the ranks of all the candidates
\* (a range of 0, or of 1 and more: the same in every release) and of the
\* distance over the distances of the scored candidates.
NormalizedRank(r) ==
    MinMaxNormalized(FromInt(r), FZero, FromInt(Len(candidates) - 1), FALSE)
NormalizedDistance(d, near_constant) ==
    MinMaxNormalized(d, MinDistance, MaxDistance, near_constant)

C20_AlphaExtremes ==
    wpc = "returned" =>
        /\ alpha = FOne =>
            \A j, k \in ScoredEntries : j < k =>
                ranking[j].original_rank < ranking[k].original_rank
        /\ alpha = FZero =>
            \A j, k \in ScoredEntries : j < k =>
                /\ FLeq(ranking[j].distance, ranking[k].distance)
                /\ ranking[j].distance = ranking[k].distance =>
                        ranking[j].original_rank < ranking[k].original_rank

\* The raw distances of the candidates that have both embeddings.
ScorableDistances ==
    {cosine(candidates[i].context_emb, candidates[i].abstract_emb) :
        i \in {k \in DOMAIN candidates : Scorable(k)}}
MinScorable == CHOOSE d \in ScorableDistances : \A e \in ScorableDistances : FLeq(d, e)
MaxScorable == CHOOSE d \in ScorableDistances : \A e \in ScorableDistances : FLeq(e, d)

\* C23, as stated: the score of a scored candidate is built from its rank
\* normalized over 0 .. len(candidates) - 1 and from its distance min-max
\* normalized over the raw distances of the scorable candidates only.
C23_NormalizationRanges ==
    wpc = "returned" =>
        \E near_constant \in Releases :
            \A j \in ScoredEntries : Scorable(ranking[j].original_rank + 1) =>
                ranking[j].score =
                    FAdd(FMul(alpha, NormalizedRank(ranking[j].original_rank)),
                         FMul(FSub(FOne, alpha),
                              MinMaxNormalized(ranking[j].distance, MinScorable, MaxScorable,
                                               near_constant)))

\* C24: only the check of the parameters raises, and when a range is
\* degenerate the normalized value is 0: with all the scored distances equal
\* (a single scored candidate included) the score is alpha * normalized rank,
\* and with a single candidate in the list it is 0.
C24_DegenerateRange ==
    /\ wpc = "raised" => ~ParamsAccepted(alpha, default_score)
    /\ wpc = "returned" =>
        \A j \in ScoredEntries :
            /\ MinDistance = MaxDistance =>
                ranking[j].score = FMul(alpha, NormalizedRank(ranking[j].original_rank))
            /\ Len(candidates) = 1 => ranking[j].score = FZero

\* The only scored candidate of a list of two is the second one: its
\* distance is not 0, its normalized distance is, and its score is alpha.
C24_Witness ==
    /\ wpc = "returned"
    /\ Len(candidates) = 2
    /\ alpha = Float(1, 2)
    /\ ScoredEntries = {1}
    /\ ranking[1].original_rank = 1
    /\ ranking[1].distance = cosine(<<1, 0>>, <<3, 4>>)
    /\ ranking[1].score = Float(1, 2)

\* C26: the returned list is a permutation of the input: it has the length
\* of the input and, for every input position i, exactly one entry, which
\* carries candidate i and the original rank i - 1.
C26_Permutation ==
    wpc = "returned" =>
        /\ Len(ranking) = Len(candidates)
        /\ \A i \in DOMAIN candidates :
            /\ Cardinality({j \in DOMAIN ranking : ranking[j].original_rank = i - 1}) = 1
            /\ \A j \in DOMAIN ranking :
                (ranking[j].original_rank = i - 1) =
                    (ranking[j].candidate = candidates[i].candidate)

\* Three candidates came out in another order than they went in, one of
\* them without score.
C26_Witness ==
    /\ wpc = "returned"
    /\ Len(ranking) = 3
    /\ ranking[1].original_rank = 2
    /\ ranking[2].original_rank = 0
    /\ ranking[3].original_rank = 1
    /\ ranking[3].score = None

\* C27, as stated: every score of the returned list lies in [0, 1].
C27_ScoreInUnitInterval ==
    wpc = "returned" =>
        \A j \in ScoredEntries :
            FLeq(FZero, ranking[j].score) /\ FLeq(ranking[j].score, FOne)

\* C28: a call that finds the entry of its key (a hit) changes neither the
\* cache nor the table passed in and does not invoke the generator; a step
\* that changes the table passed in, the record of the generator's
\* invocations or the cache belongs to a call that missed.
C28_HitChangesNothing ==
    [][\A p \in Procs :
        /\ (InCall(p) /\ entryAtStart[p] /\ pc'[p] # pc[p]) =>
            /\ cache' = cache
            /\ tbl'[p] = tbl[p]
            /\ genArgs'[p] = <<>>
            /\ invoked' = invoked
            /\ pc[p] = "load"
        /\ (InCall(p) /\ (tbl'[p] # tbl[p] \/ genArgs'[p] # genArgs[p])) =>
            ~entryAtStart[p]
        /\ (InCall(p) /\ pc'[p] # pc[p] /\ cache' # cache) => ~entryAtStart[p]]_vars

\* A hit has returned the stored table, which is annotated, and the table
\* passed in still has no annotation.
C28_Witness ==
    \E p \in Procs :
        /\ pc[p] = "returned"
        /\ entryAtStart[p]
        /\ genArgs[p] = <<>>
        /\ \E c \in DOMAIN ret[p].ann : ret[p].ann[c] # None
        /\ \A c \in DOMAIN tbl[p].ann : tbl[p].ann[c] = None

\* C25, as stated: when no generator call fails, a call of annotate_dataset
\* never ends with an exception and a run that has started eventually
\* returns; when it has returned every table of the dataset has a complete
\* cache entry; and no task is ever cancelled or fails.
C25_RunCompletes ==
    /\ [](dsPc # "raised")
    /\ [](dsPc = "returned" => \A i \in 1..NTables : Complete(filename(Tables[i])))
    /\ [](\A i \in 1..NTables : fut[i] \notin {"cancelled", "failed"})
    /\ (dsPc \in {"serial", "submitting", "parallel"}) ~> (dsPc = "returned")

\* C29: a complete cache entry is never changed or removed, by the steps that
\* abort a run and start the next one included; when a run has raised, the
\* tables whose annotation had completed have their entries; and in every
\* run the generator is invoked only for a table without cache entry.
C29_ResumeAfterAbort ==
    [][/\ \A k \in Keys : Complete(k) => cache'[k] = cache[k]
       /\ \A p \in Procs : Invokes(p) => ~cache[filename(tbl[p])].exists
       /\ dsPc' = "raised" =>
            /\ \A i \in 1..NTables : fut'[i] = "done" => Complete(filename(Tables[i]))'
            /\ \A j \in DOMAIN new_annotated_tables' : Complete(filename(Tables[j]))']_vars

\* In the run after an aborted one a worker has found the entry of its table
\* while another worker has invoked the generator for a table that had none.
C29_Witness ==
    /\ runs = 2
    /\ dsPc = "parallel"
    /\ \E p, q \in Procs :
        /\ pc[p] = "returned"
        /\ entryAtStart[p]
        /\ genArgs[p] = <<>>
        /\ pc[q] = "open"
        /\ genArgs[q] # <<>>


\* The URI of an Entity, percent-decoded and in lower case.
NormalizedUri(e) == lower(unquote(e.fields[1]))

\* C21: Entity equality is symmetric, case-insensitive and
\* percent-decoding-normalized: once an Entity has been compared with a
\* value, both orders of the comparison gave the same answer; against an
\* Entity the answer is True exactly when the two URIs percent-decode to the
\* same lowercase string; against a value that is not an Entity it is False.
C21_EntityEquality ==
    epc \in {"compared", "hashed"} =>
        /\ eqLR = eqRL
        /\ right.cls = "Entity" => eqLR = Bool(NormalizedUri(left) = NormalizedUri(right))
        /\ right.cls # "Entity" => eqLR = "False"

\* C22: any two Entity values that compare equal have the same hash, so they
\* land on the same key in a set or dict.
C22_EqualEntitiesHashEqual ==
    (epc = "hashed" /\ right.cls = "Entity" /\ eqLR = "True") => hashL = hashR

====
